---- MODULE Spec2Model ----
(***************************************************************************)
(* Position reconstruction of backpack-exchange-reads                      *)
(* (PositionReconstructor, src/src/index.ts lines 232-462).                *)
(*                                                                         *)
(* Numbers.  The code computes with IEEE doubles obtained by parseFloat.   *)
(* The model computes exactly: a quantity is an integer number of ticks of *)
(* 5e-8 (so that the code's EPSILON = 1e-7 is 2 ticks and a quantity of 1  *)
(* tick lies below the tolerance), a price and a fee are integers, and a   *)
(* quotient is a reduced fraction <<n, d>>.  Rounding error of doubles is  *)
(* not modelled.                                                           *)
(*                                                                         *)
(* Time.  A timestamp is a number of milliseconds; new Date(t).getTime()   *)
(* is t.  `new Date()` reads the wall clock: every read is a choice from   *)
(* ClockReadings that is not earlier than the read before.                 *)
(***************************************************************************)
EXTENDS Integers, Sequences, FiniteSets, TLC

\* ------------------------------------------------------------------ bounds

\* The longest fills array a caller passes to reconstructPositions.
MaxFills == 4

\* The longest elapsed time passed to formatDuration, in whole days.
MaxDays == 2

\* The most records the server holds for the endpoint that is paged.
MaxRecords == 2001

\* ------------------------------------------------------------- constants

\* PositionReconstructor.EPSILON = 0.0000001, in ticks of 5e-8.
EPSILON == 2

\* null, and a Date object holding the instant t (an object is truthy
\* whatever its instant).
NULL == <<>>
Date(t) == <<t>>
getTime(date) == date[1]

\* The instants (ms) at which the fills of the history executed: 21 s,
\* 1 h 2 min 2 s and 1 day 1 h 1 min after the first.
Timestamps == <<1000, 22000, 3723000, 90061000>>
T1 == Timestamps[1]
T2 == Timestamps[2]
T3 == Timestamps[3]
T4 == Timestamps[4]

\* What `new Date()` can return: an instant after every fill of the history.
ClockReadings == {T4 + 1000, T4 + 2000}

Symbols == {"BTC_USDC_PERP", "ETH_USDC_PERP"}

BackpackFill(id, symbol, side, quantity, price, fee, timestamp) ==
    [id |-> id, symbol |-> symbol, side |-> side, quantity |-> quantity,
     price |-> price, fee |-> fee, timestamp |-> timestamp]

\* The fills of the account's history: the arrays passed to
\* reconstructPositions are sequences of distinct fills of this history, in
\* any order.  Quantities 0 and 1 lie below EPSILON; fills 1/6/7, 2/3/8 and
\* 4/5/9 share a timestamp.
FillPool ==
    { BackpackFill(1,  "BTC_USDC_PERP", "Bid", 2, 10, 1, T1),
      BackpackFill(2,  "BTC_USDC_PERP", "Ask", 2, 12, 1, T2),
      BackpackFill(3,  "BTC_USDC_PERP", "Ask", 4,  9, 2, T2),
      BackpackFill(4,  "BTC_USDC_PERP", "Bid", 2, 11, 0, T3),
      BackpackFill(5,  "BTC_USDC_PERP", "Ask", 1, 10, 1, T3),
      BackpackFill(6,  "BTC_USDC_PERP", "Bid", 0, 10, 1, T1),
      BackpackFill(7,  "ETH_USDC_PERP", "Bid", 2,  5, 1, T1),
      BackpackFill(8,  "ETH_USDC_PERP", "Ask", 2,  4, 1, T2),
      BackpackFill(9,  "ETH_USDC_PERP", "Ask", 2,  6, 0, T3),
      BackpackFill(10, "ETH_USDC_PERP", "Bid", 2,  7, 2, T4),
      BackpackFill(11, "BTC_USDC_PERP", "Bid", 2, 13, 1, T4) }

\* -------------------------------------------------------------- sequences

Range(s) == { s[i] : i \in DOMAIN s }

IsInjective(s) == \A i, j \in DOMAIN s : s[i] = s[j] => i = j

RECURSIVE SeqsUpTo(_, _)
\* The sequences of at most n distinct elements of S.
SeqsUpTo(S, n) ==
    IF n = 0 THEN { <<>> }
    ELSE LET shorter == SeqsUpTo(S, n - 1)
         IN  shorter \cup { Append(s, x) : s \in { t \in shorter : Len(t) = n - 1 },
                                           x \in S }

Inputs == { s \in SeqsUpTo(FillPool, MaxFills) : IsInjective(s) }

RECURSIVE SelectSeqBy(_, _, _)
SelectSeqBy(s, Test(_), i) ==
    IF i > Len(s) THEN <<>>
    ELSE IF Test(s[i]) THEN <<s[i]>> \o SelectSeqBy(s, Test, i + 1)
         ELSE SelectSeqBy(s, Test, i + 1)

\* ------------------------------------------------------------- arithmetic

Abs(x) == IF x < 0 THEN -x ELSE x

\* Variant of Min: the larger of the two.
Max(a, b) == IF a < b THEN b ELSE a

\* Math.min
Min(a, b) == IF a < b THEN a ELSE b

RECURSIVE GCD(_, _)
GCD(a, b) == IF b = 0 THEN a ELSE GCD(b, a % b)

\* The number n / d as a reduced fraction with a denominator that is not
\* negative.  As in the code's arithmetic a division by zero is not an
\* error: 0 / 0 is <<0, 0>> (NaN) and n / 0 is <<1, 0>> or <<-1, 0>>
\* (Infinity, -Infinity).
Rat(n, d) ==
    LET g == GCD(Abs(n), Abs(d))
        s == IF d < 0 THEN -1 ELSE 1
    IN  IF g = 0 THEN <<0, 0>> ELSE <<(s * n) \div g, (s * d) \div g>>

RatOfInt(n) == <<n, 1>>
RatZero == <<0, 1>>
RatAdd(a, b) == Rat(a[1] * b[2] + b[1] * a[2], a[2] * b[2])

\* Variant of RatSub: b - a.
RatSubReversed(a, b) == Rat(b[1] * a[2] - a[1] * b[2], a[2] * b[2])

\* a - b
RatSub(a, b) == Rat(a[1] * b[2] - b[1] * a[2], a[2] * b[2])
RatMul(a, b) == Rat(a[1] * b[1], a[2] * b[2])
RatDiv(a, b) == Rat(a[1] * b[2], a[2] * b[1])

\* Variant of RatPositive: zero passes too.
RatPositiveOrZero(a) == a[1] >= 0

\* a > 0
RatPositive(a) == a[1] > 0

\* ------------------------------------------------ PositionReconstructor

RECURSIVE InsertByTimestampBeforeTies(_, _)
\* Variant of InsertByTimestamp: fill placed before the elements of its own
\* timestamp.
InsertByTimestampBeforeTies(sorted, fill) ==
    IF sorted = <<>> THEN <<fill>>
    ELSE IF sorted[Len(sorted)].timestamp - fill.timestamp < 0
         THEN Append(sorted, fill)
         ELSE Append(InsertByTimestampBeforeTies(
                         SubSeq(sorted, 1, Len(sorted) - 1), fill),
                     sorted[Len(sorted)])

RECURSIVE InsertByTimestamp(_, _)
\* fill placed behind every element whose timestamp is not larger.
InsertByTimestamp(sorted, fill) ==
    IF sorted = <<>> THEN <<fill>>
    ELSE IF sorted[Len(sorted)].timestamp - fill.timestamp <= 0
         THEN Append(sorted, fill)
         ELSE Append(InsertByTimestamp(SubSeq(sorted, 1, Len(sorted) - 1), fill),
                     sorted[Len(sorted)])

RECURSIVE SortFills(_, _)
SortFills(fills, n) ==
    IF n = 0 THEN <<>> ELSE InsertByTimestamp(SortFills(fills, n - 1), fills[n])

\* Variant of sortedCopy: the copy is not sorted.
sortedCopyUnsorted(fills) == fills

\* [...fills].sort((a, b) => a.timestamp - b.timestamp): Array.prototype.sort
\* is stable, so fills of equal timestamp keep their order in the array.
sortedCopy(fills) == SortFills(fills, Len(fills))

Plural(n, one, many) == IF n # 1 THEN many ELSE one
PluralGt(n, one, many) == IF n > 1 THEN many ELSE one

\* The text `${a} ${unit} ${b} ${unit}` as the sequence of its words.
formatDuration(milliseconds) ==
    LET seconds == milliseconds \div 1000
        minutes == seconds \div 60
        hours   == minutes \div 60
        days    == hours \div 24
    IN  IF days > 0
        THEN <<days, PluralGt(days, "day", "days"),
               hours % 24, Plural(hours % 24, "hour", "hours")>>
        ELSE IF hours > 0
        THEN <<hours, PluralGt(hours, "hour", "hours"),
               minutes % 60, Plural(minutes % 60, "min", "mins")>>
        ELSE IF minutes > 0
        THEN <<minutes, PluralGt(minutes, "min", "mins"),
               seconds % 60, Plural(seconds % 60, "sec", "secs")>>
        ELSE <<seconds, Plural(seconds, "second", "seconds")>>

\* The accumulators of createCompletedPosition before its loop.
Totals0 ==
    [totalBuyValue |-> 0, totalSellValue |-> 0, totalBuyQuantity |-> 0,
     totalSellQuantity |-> 0, totalFees |-> 0, entryTime |-> NULL,
     exitTime |-> NULL]

\* Variant of AddFill: the fee of a fill is added to the value of its side.
AddFillFeeInValue(acc, fill, isLongPosition) ==
    LET timestamp == Date(fill.timestamp)
        fees      == acc.totalFees + fill.fee
        value     == fill.price * fill.quantity + fill.fee
    IN  IF fill.side = "Bid"
        THEN [acc EXCEPT
                !.totalFees = fees,
                !.totalBuyValue = @ + value,
                !.totalBuyQuantity = @ + fill.quantity,
                !.entryTime = IF @ = NULL
                                 \/ (isLongPosition /\ getTime(timestamp) < getTime(@))
                              THEN timestamp ELSE @,
                !.exitTime = IF ~isLongPosition THEN timestamp ELSE @]
        ELSE [acc EXCEPT
                !.totalFees = fees,
                !.totalSellValue = @ + value,
                !.totalSellQuantity = @ + fill.quantity,
                !.entryTime = IF @ = NULL
                                 \/ (~isLongPosition /\ getTime(timestamp) < getTime(@))
                              THEN timestamp ELSE @,
                !.exitTime = IF isLongPosition THEN timestamp ELSE @]

\* One iteration of the loop over the fills of the segment.
AddFill(acc, fill, isLongPosition) ==
    LET timestamp == Date(fill.timestamp)
        fees      == acc.totalFees + fill.fee
    IN  IF fill.side = "Bid"
        THEN [acc EXCEPT
                !.totalFees = fees,
                !.totalBuyValue = @ + fill.price * fill.quantity,
                !.totalBuyQuantity = @ + fill.quantity,
                !.entryTime = IF @ = NULL
                                 \/ (isLongPosition /\ getTime(timestamp) < getTime(@))
                              THEN timestamp ELSE @,
                !.exitTime = IF ~isLongPosition THEN timestamp ELSE @]
        ELSE [acc EXCEPT
                !.totalFees = fees,
                !.totalSellValue = @ + fill.price * fill.quantity,
                !.totalSellQuantity = @ + fill.quantity,
                !.entryTime = IF @ = NULL
                                 \/ (~isLongPosition /\ getTime(timestamp) < getTime(@))
                              THEN timestamp ELSE @,
                !.exitTime = IF isLongPosition THEN timestamp ELSE @]

\* Variant of Totals: the last fill alone is accumulated.
TotalsOfLast(fills, n, isLongPosition) ==
    IF n = 0 THEN Totals0 ELSE AddFill(Totals0, fills[n], isLongPosition)

RECURSIVE Totals(_, _, _)
\* The accumulators after the first n fills of the segment.
Totals(fills, n, isLongPosition) ==
    IF n = 0 THEN Totals0
    ELSE AddFill(Totals(fills, n - 1, isLongPosition), fills[n], isLongPosition)

\* Variant of isLong: the direction read off the fill that closes.
isLongByLast(fills) == fills[Len(fills)].side = "Ask"

\* The direction of a segment: "the first fill determines the direction".
isLong(fills) == fills[1].side = "Bid"

\* Whether createCompletedPosition(id, fills) evaluates `new Date()`: in
\* `entryTime || new Date()` and `exitTime || new Date()`, when the loop
\* left entryTime or exitTime null.
readsClock(fills) ==
    /\ Len(fills) > 0
    /\ LET t == Totals(fills, Len(fills), isLong(fills))
       IN  t.entryTime = NULL \/ t.exitTime = NULL

\* createCompletedPosition(id, fills): <<>> for null, else <<position>>; now
\* is what `new Date()` returns.  Dates of the position are held as their
\* getTime().
createCompletedPosition(id, fills, now) ==
    IF Len(fills) = 0 THEN <<>>
    ELSE
    LET isLongPosition == isLong(fills)
        t == Totals(fills, Len(fills), isLongPosition)
        avgBuyPrice  == IF t.totalBuyQuantity > 0
                        THEN Rat(t.totalBuyValue, t.totalBuyQuantity) ELSE RatZero
        avgSellPrice == IF t.totalSellQuantity > 0
                        THEN Rat(t.totalSellValue, t.totalSellQuantity) ELSE RatZero
        size == Min(t.totalBuyQuantity, t.totalSellQuantity)
        entryPrice == IF isLongPosition THEN avgBuyPrice ELSE avgSellPrice
        exitPrice  == IF isLongPosition THEN avgSellPrice ELSE avgBuyPrice
        notionalValue == RatMul(RatOfInt(size), entryPrice)
        realizedPnl ==
            IF isLongPosition
            THEN RatMul(RatSub(exitPrice, entryPrice), RatOfInt(size))
            ELSE RatMul(RatSub(entryPrice, exitPrice), RatOfInt(size))
        realizedPnlPercent ==
            IF RatPositive(notionalValue)
            THEN RatMul(RatDiv(realizedPnl, notionalValue), RatOfInt(100))
            ELSE RatZero
        duration ==
            IF t.entryTime # NULL /\ t.exitTime # NULL
            THEN formatDuration(getTime(t.exitTime) - getTime(t.entryTime))
            ELSE <<"Unknown">>
    IN  << [id |-> id,
         symbol |-> fills[1].symbol,
         side |-> IF isLongPosition THEN "Long" ELSE "Short",
         size |-> size,
         notionalValue |-> notionalValue,
         entryPrice |-> entryPrice,
         exitPrice |-> exitPrice,
         entryTime |-> IF t.entryTime # NULL THEN getTime(t.entryTime) ELSE now,
         exitTime |-> IF t.exitTime # NULL THEN getTime(t.exitTime) ELSE now,
         duration |-> duration,
         realizedPnl |-> realizedPnl,
         realizedPnlPercent |-> realizedPnlPercent,
         totalFees |-> t.totalFees,
         leverage |-> "N/A",
         collateral |-> "N/A",
         fills |-> fills] >>

\* +quantity for a Bid, -quantity for an Ask (the type admits no other side).
signedQuantity(fill) ==
    IF fill.side = "Bid" THEN fill.quantity
    ELSE IF fill.side = "Ask" THEN -fill.quantity
    ELSE 0

\* Variants of isClosed: a tolerance that includes EPSILON itself, and an
\* exact comparison with zero.
isClosedInclusive(netQuantity) == Abs(netQuantity) <= EPSILON
isClosedExact(netQuantity) == netQuantity = 0

\* Variant of isClosed: the comparison without the absolute value.
isClosedSigned(netQuantity) == netQuantity < EPSILON

\* Math.abs(position.netQuantity) < this.EPSILON
isClosed(netQuantity) == Abs(netQuantity) < EPSILON

\* symbolPositions is a Map: its entries in insertion order.
hasSymbol(map, symbol) == \E k \in DOMAIN map : map[k].symbol = symbol

\* Variant of withSymbol: the ledger is set anew without the test of has().
withSymbolAlwaysSet(map, symbol) ==
    LET ledger == [symbol |-> symbol, netQuantity |-> 0, openFills |-> <<>>,
                   completedPositions |-> <<>>]
    IN  IF hasSymbol(map, symbol)
        THEN [map EXCEPT ![CHOOSE k \in DOMAIN map : map[k].symbol = symbol] = ledger]
        ELSE Append(map, ledger)

\* The Map after `if (!symbolPositions.has(symbol)) symbolPositions.set(...)`.
withSymbol(map, symbol) ==
    IF hasSymbol(map, symbol) THEN map
    ELSE Append(map, [symbol |-> symbol, netQuantity |-> 0, openFills |-> <<>>,
                      completedPositions |-> <<>>])

\* Variant of entryOf: one ledger for every symbol.
entryOfAny(map, symbol) == CHOOSE k \in DOMAIN map : \A j \in DOMAIN map : k <= j

\* Variant of entryOf: the ledger created last.
entryOfLast(map, symbol) == Len(map)

\* The place of symbolPositions.get(symbol) among the entries.
entryOf(map, symbol) == CHOOSE k \in DOMAIN map : map[k].symbol = symbol

\* Variant of resetPosition: netQuantity is zeroed, the buffer is kept.
resetPositionKeepFills(position) == [position EXCEPT !.netQuantity = 0]

\* Variant of resetPosition: the buffer is emptied, netQuantity is kept.
resetPositionKeepNet(position) == [position EXCEPT !.openFills = <<>>]

\* Variant of resetPosition: the buffer is emptied in place
\* (openFills.length = 0), and with it the fills of the position just
\* completed, which are that same array.
resetPositionInPlace(position) ==
    [position EXCEPT
        !.openFills = <<>>,
        !.netQuantity = 0,
        !.completedPositions =
            IF Len(@) = 0 THEN @ ELSE [@ EXCEPT ![Len(@)].fills = <<>>]]

\* "Reset for next position": openFills is assigned a new empty array, so
\* the array handed to createCompletedPosition, which the completed position
\* keeps as its fills, is no longer the buffer and is not written again.
resetPosition(position) ==
    [position EXCEPT !.openFills = <<>>, !.netQuantity = 0]

\* Variant of applyFill: a fill of quantity zero is left out.
applyFillSkipZero(position, fill, id, now) ==
    LET pushed == [position EXCEPT
                     !.openFills = Append(@, fill),
                     !.netQuantity = @ + signedQuantity(fill)]
    IN  IF fill.quantity = 0 THEN position
        ELSE IF isClosed(pushed.netQuantity)
        THEN resetPosition(
               [pushed EXCEPT !.completedPositions =
                   @ \o createCompletedPosition(id, pushed.openFills, now)])
        ELSE pushed

\* Variant of applyFill: the position takes its number from the count of
\* the positions of its own ledger.
applyFillOwnCount(position, fill, id, now) ==
    LET pushed == [position EXCEPT
                     !.openFills = Append(@, fill),
                     !.netQuantity = @ + signedQuantity(fill)]
    IN  IF isClosed(pushed.netQuantity)
        THEN resetPosition(
               [pushed EXCEPT !.completedPositions =
                   @ \o createCompletedPosition(Len(@) + 1, pushed.openFills, now)])
        ELSE pushed

\* The body of the loop over sortedFills, on the ledger of the fill's symbol:
\* the ledger after the fill, and whether the position id was consumed.
applyFill(position, fill, id, now) ==
    LET pushed == [position EXCEPT
                     !.openFills = Append(@, fill),
                     !.netQuantity = @ + signedQuantity(fill)]
    IN  IF isClosed(pushed.netQuantity)
        THEN resetPosition(
               [pushed EXCEPT !.completedPositions =
                   @ \o createCompletedPosition(id, pushed.openFills, now)])
        ELSE pushed

RECURSIVE collectPositions(_, _)
\* allPositions.push(...pos.completedPositions) for the entries of the Map
\* in insertion order.
collectPositions(map, n) ==
    IF n = 0 THEN <<>>
    ELSE collectPositions(map, n - 1) \o map[n].completedPositions

RECURSIVE InsertByEntryTime(_, _)
InsertByEntryTime(sorted, p) ==
    IF sorted = <<>> THEN <<p>>
    ELSE IF sorted[Len(sorted)].entryTime - p.entryTime <= 0
         THEN Append(sorted, p)
         ELSE Append(InsertByEntryTime(SubSeq(sorted, 1, Len(sorted) - 1), p),
                     sorted[Len(sorted)])

\* Variant of sortByEntryTime: the positions stay as collected.
sortByEntryTimeSkipped(positions, n) == SubSeq(positions, 1, n)

RECURSIVE sortByEntryTime(_, _)
\* allPositions.sort((a, b) => a.entryTime - b.entryTime), stable.
sortByEntryTime(positions, n) ==
    IF n = 0 THEN <<>>
    ELSE InsertByEntryTime(sortByEntryTime(positions, n - 1), positions[n])

RECURSIVE sumPnl(_, _)
\* positions.reduce((sum, p) => sum + p.realizedPnl, 0)
sumPnl(positions, n) ==
    IF n = 0 THEN RatZero
    ELSE RatAdd(sumPnl(positions, n - 1), positions[n].realizedPnl)

RECURSIVE sumFees(_, _)
\* positions.reduce((sum, pos) => sum + pos.totalFees, 0)
sumFees(positions, n) ==
    IF n = 0 THEN 0 ELSE sumFees(positions, n - 1) + positions[n].totalFees

symbolBreakdownOf(map) ==
    [symbol \in { map[k].symbol : k \in DOMAIN map } |->
        LET pos == map[entryOf(map, symbol)]
        IN  [positions |-> Len(pos.completedPositions),
             pnl |-> sumPnl(pos.completedPositions, Len(pos.completedPositions))]]

RECURSIVE bufferedFees(_, _)
bufferedFees(openFills, n) ==
    IF n = 0 THEN 0 ELSE bufferedFees(openFills, n - 1) + openFills[n].fee

RECURSIVE openFees(_, _)
openFees(map, n) ==
    IF n = 0 THEN 0
    ELSE openFees(map, n - 1) + bufferedFees(map[n].openFills, Len(map[n].openFills))

\* Variant of summaryOf: the fees of the fills left in the buffers are
\* counted too.
summaryOfAllFees(allPositions, map) ==
    [totalPositions |-> Len(allPositions),
     totalPnl |-> sumPnl(allPositions, Len(allPositions)),
     totalFees |-> sumFees(allPositions, Len(allPositions)) + openFees(map, Len(map)),
     symbolBreakdown |-> symbolBreakdownOf(map)]

summaryOf(allPositions, map) ==
    [totalPositions |-> Len(allPositions),
     totalPnl |-> sumPnl(allPositions, Len(allPositions)),
     totalFees |-> sumFees(allPositions, Len(allPositions)),
     symbolBreakdown |-> symbolBreakdownOf(map)]

\* The PositionAnalysis returned after the scan.
analysisOf(map) ==
    LET collected == collectPositions(map, Len(map))
        allPositions == sortByEntryTime(collected, Len(collected))
    IN  [completedPositions |-> allPositions,
         summary |-> summaryOf(allPositions, map)]

\* ------------------------------------------------------------------ state

VARIABLES
    fills,              \* the caller's array, argument of reconstructPositions
    sortedFills,        \* the sorted copy
    idx,                \* the place of the loop in sortedFills
    symbolPositions,    \* the Map of the ledgers
    positionIdCounter,
    pc,                 \* "idle": not yet called, "scan": in the loop, "done": returned
    result,             \* <<>>, or <<the PositionAnalysis returned>>
    prev,               \* <<>>, or <<the argument and the result of the call before>>
    call,               \* how the argument of this call was made from the one before
    clock,              \* the wall clock at its last reading
    milliseconds,       \* the argument of a call of formatDuration
    formatted,          \* <<>>, or <<the text formatDuration returned>>
    server,             \* how many records the server holds for the paged endpoint
    entry,              \* the function that was called: main or a getAll method
    apiPc,              \* where that function is
    offset,             \* offset of the paging loop
    allFills,           \* the records the paging loop has collected
    log                 \* the requests sent and the delays waited, in order

\* The state of reconstructPositions and its callers, of formatDuration
\* called alone, and of the fetching of main and BackpackAPI.
reconstruction == <<fills, sortedFills, idx, symbolPositions, positionIdCounter,
                    pc, result, prev, call, clock>>
formatting == <<milliseconds, formatted>>
fetching == <<server, entry, apiPc, offset, allFills, log>>

vars == <<reconstruction, formatting, fetching>>

\* Nothing is formatted alone and nothing is fetched.
NoFormatting == milliseconds = 0 /\ formatted = <<>>
NoFetching ==
    /\ server = 0
    /\ entry = "none"
    /\ apiPc = "idle"
    /\ offset = 0
    /\ allFills = <<>>
    /\ log = <<>>

locals == <<sortedFills, idx, symbolPositions, positionIdCounter>>

Init ==
    /\ fills \in Inputs
    /\ sortedFills = <<>>
    /\ idx = 1
    /\ symbolPositions = <<>>
    /\ positionIdCounter = 1
    /\ pc = "idle"
    /\ result = <<>>
    /\ prev = <<>>
    /\ call = [kind |-> "first"]
    /\ clock = T4
    /\ NoFormatting
    /\ NoFetching

\* Variant of Enter: the array of the caller is sorted in place
\* (fills.sort(...) without the copy).
EnterSortingInPlace ==
    /\ pc = "idle"
    /\ fills' = sortedCopy(fills)
    /\ sortedFills' = fills'
    /\ symbolPositions' = <<>>
    /\ positionIdCounter' = 1
    /\ idx' = 1
    /\ pc' = "scan"
    /\ result' = <<>>
    /\ UNCHANGED <<prev, call, clock>>
    /\ UNCHANGED <<formatting, fetching>>

\* reconstructPositions(fills) up to its loop: the sorted copy, a new Map and
\* the counter at 1.
Enter ==
    /\ pc = "idle"
    /\ sortedFills' = sortedCopy(fills)
    /\ symbolPositions' = <<>>
    /\ positionIdCounter' = 1
    /\ idx' = 1
    /\ pc' = "scan"
    /\ result' = <<>>
    /\ UNCHANGED <<fills, prev, call, clock>>
    /\ UNCHANGED <<formatting, fetching>>

\* One iteration of `for (const fill of sortedFills)`.
ProcessFill ==
    /\ pc = "scan"
    /\ idx <= Len(sortedFills)
    /\ \E now \in ClockReadings :
         LET fill == sortedFills[idx]
             map == withSymbol(symbolPositions, fill.symbol)
             k == entryOf(map, fill.symbol)
             after == applyFill(map[k], fill, positionIdCounter, now)
             closed == isClosed(map[k].netQuantity + signedQuantity(fill))
         IN  /\ now >= clock
             /\ symbolPositions' = [map EXCEPT ![k] = after]
             /\ positionIdCounter' = IF closed THEN positionIdCounter + 1
                                     ELSE positionIdCounter
             /\ clock' = IF closed /\ readsClock(Append(map[k].openFills, fill))
                          THEN now ELSE clock
    /\ idx' = idx + 1
    /\ UNCHANGED <<fills, sortedFills, pc, result, prev, call>>
    /\ UNCHANGED <<formatting, fetching>>

\* The end of the loop: collect, sort by entry time, summarise, return.
Finish ==
    /\ pc = "scan"
    /\ idx > Len(sortedFills)
    /\ result' = <<analysisOf(symbolPositions)>>
    /\ pc' = "done"
    /\ UNCHANGED <<fills, locals, prev, call, clock>>
    /\ UNCHANGED <<formatting, fetching>>

Next == Enter \/ ProcessFill \/ Finish

Spec == Init /\ [][Next]_vars

\* --------------------------------------------------------- a second call
\* The caller calls reconstructPositions again once it has returned: with the
\* same array, with a permutation of it, or with the array without the fills
\* of one symbol.  The result of the first call is kept for comparison.

\* The fills the compared calls draw their arrays from.
RerunPool == { f \in FillPool : f.id \in {1, 2, 3, 6, 7, 8} }

RerunInputs == { s \in Inputs : Range(s) \subseteq RerunPool }

PermutationsOf(n) == { p \in [1..n -> 1..n] : \A i, j \in 1..n : p[i] = p[j] => i = j }

withoutSymbol(array, symbol) ==
    LET Other(f) == f.symbol # symbol IN SelectSeqBy(array, Other, 1)

InitRuns ==
    /\ Init
    /\ fills \in RerunInputs

Returned == [fills |-> fills, result |-> result[1]]

CallAgain ==
    /\ pc = "done" /\ prev = <<>>
    /\ prev' = <<Returned>>
    /\ call' = [kind |-> "same"]
    /\ pc' = "idle"
    /\ UNCHANGED <<fills, locals, result, clock>>
    /\ UNCHANGED <<formatting, fetching>>

CallPermuted ==
    /\ pc = "done" /\ prev = <<>>
    /\ \E p \in PermutationsOf(Len(fills)) :
         /\ fills' = [i \in 1..Len(fills) |-> fills[p[i]]]
         /\ fills' # fills
    /\ prev' = <<Returned>>
    /\ call' = [kind |-> "permuted"]
    /\ pc' = "idle"
    /\ UNCHANGED <<locals, result, clock>>
    /\ UNCHANGED <<formatting, fetching>>

CallWithout ==
    /\ pc = "done" /\ prev = <<>>
    /\ \E symbol \in Symbols :
         /\ fills' = withoutSymbol(fills, symbol)
         /\ call' = [kind |-> "without", symbol |-> symbol]
    /\ prev' = <<Returned>>
    /\ pc' = "idle"
    /\ UNCHANGED <<locals, result, clock>>
    /\ UNCHANGED <<formatting, fetching>>

NextRuns == Next \/ CallAgain \/ CallPermuted \/ CallWithout

SpecRuns == InitRuns /\ [][NextRuns]_vars

\* ------------------------------------------- a second call, other fees
\* The caller calls reconstructPositions again with the same fills in the
\* same order, the fee of every fill replaced.

\* The fills the fee comparison draws its arrays from: they close Long and
\* Short positions of both symbols.
FeePool == { f \in FillPool : f.id \in {1, 2, 4, 6, 7, 8, 10} }

FeeInputs == { s \in Inputs : Range(s) \subseteq FeePool }

\* The fees the second call replaces the fees of the first with.
FeeValues == {0, 3}

InitFees ==
    /\ Init
    /\ fills \in FeeInputs

CallWithFees ==
    /\ pc = "done" /\ prev = <<>>
    /\ \E fees \in [DOMAIN fills -> FeeValues] :
         /\ fills' = [i \in DOMAIN fills |-> [fills[i] EXCEPT !.fee = fees[i]]]
         /\ fills' # fills
    /\ prev' = <<Returned>>
    /\ call' = [kind |-> "fees"]
    /\ pc' = "idle"
    /\ UNCHANGED <<locals, result, clock>>
    /\ UNCHANGED <<formatting, fetching>>

NextFees == Next \/ CallWithFees

SpecFees == InitFees /\ [][NextFees]_vars

\* ------------------------------------------------ a call, fills that cross
\* One call whose array holds fills larger than the position they meet.

\* An Ask of 1.5e-7 (3 ticks): on a net quantity of 1e-7 it leaves -5e-8.
OvershootingFill == BackpackFill(12, "BTC_USDC_PERP", "Ask", 3, 11, 1, T2)

CrossPool ==
    { f \in FillPool : f.id \in {1, 2, 3, 4, 7, 8, 11} } \cup { OvershootingFill }

CrossInputs == { s \in SeqsUpTo(CrossPool, MaxFills) : IsInjective(s) }

InitCross ==
    /\ fills \in CrossInputs
    /\ sortedFills = <<>>
    /\ idx = 1
    /\ symbolPositions = <<>>
    /\ positionIdCounter = 1
    /\ pc = "idle"
    /\ result = <<>>
    /\ prev = <<>>
    /\ call = [kind |-> "first"]
    /\ clock = T4
    /\ NoFormatting
    /\ NoFetching

SpecCross == InitCross /\ [][Next]_vars

\* ------------------------------------------------ formatDuration, alone
\* formatDuration called with an elapsed time of up to MaxDays days and a
\* day less a millisecond: the counts of hours, minutes and seconds that make
\* a singular, a plural, a zero and the largest count of the unit, at the
\* start and at the last millisecond of the second.

HoursOfDay == {0, 1, 2, 23}

SixtiethsOfUnit == {0, 1, 2, 59}

MillisecondsOfSecond == {0, 999}

DurationInputs ==
    { (((d * 24 + h) * 60 + mi) * 60 + s) * 1000 + r :
        d \in 0..MaxDays, h \in HoursOfDay, mi \in SixtiethsOfUnit,
        s \in SixtiethsOfUnit, r \in MillisecondsOfSecond }

InitDuration ==
    /\ fills = <<>>
    /\ sortedFills = <<>>
    /\ idx = 1
    /\ symbolPositions = <<>>
    /\ positionIdCounter = 1
    /\ pc = "idle"
    /\ result = <<>>
    /\ prev = <<>>
    /\ call = [kind |-> "none"]
    /\ clock = T4
    /\ milliseconds \in DurationInputs
    /\ formatted = <<>>
    /\ NoFetching

Format ==
    /\ formatted = <<>>
    /\ formatted' = <<formatDuration(milliseconds)>>
    /\ UNCHANGED <<reconstruction, milliseconds, fetching>>

SpecDuration == InitDuration /\ [][Format]_vars

\* ------------------------------------------------ BackpackAPI and main
\* The fetching of main (getAllFills, then one request each for orders,
\* funding payments and settlements), and the paging methods getAllOrders,
\* getAllFundingPayments and getAllSettlements called alone: their loop is
\* the loop of getAllFills on another path.  The server holds `server`
\* records for the paged path, numbered 1, 2, ... in the order it serves
\* them, and answers every request with the records the offset and the limit
\* ask for.

\* const limit = 1000
limit == 1000

\* setTimeout(resolve, 100)
pause == 100

\* { limit: 10 } of the three requests of main.
probeLimit == 10

Entries == {"main", "getAllOrders", "getAllFundingPayments", "getAllSettlements"}

\* The path of the endpoint a function pages through.
pathOf(function) ==
    CASE function = "main" -> "/wapi/v1/history/fills"
      [] function = "getAllOrders" -> "/wapi/v1/history/orders"
      [] function = "getAllFundingPayments" -> "/wapi/v1/history/fundingPayments"
      [] function = "getAllSettlements" -> "/wapi/v1/history/settlement"

\* The log entries: a request sent, a delay waited.
Request(path, lim, off) ==
    [kind |-> "request", path |-> path, limit |-> lim, offset |-> off]
Delay(ms) == [kind |-> "delay", ms |-> ms]

\* The answer of a server that holds n records to { limit, offset }.
pageOf(n, lim, off) ==
    LET count == IF n - off < 0 THEN 0 ELSE Min(lim, n - off)
    IN  [i \in 1..count |-> off + i]

\* The numbers of records tried: up to MaxRecords, those at most two from a
\* multiple of the limit, and those half a page from one.
ServerSizes ==
    { n \in 0..MaxRecords :
        \/ n % limit <= 2
        \/ n % limit >= limit - 2
        \/ n % limit = limit \div 2 }

InitFetch ==
    /\ fills = <<>>
    /\ sortedFills = <<>>
    /\ idx = 1
    /\ symbolPositions = <<>>
    /\ positionIdCounter = 1
    /\ pc = "idle"
    /\ result = <<>>
    /\ prev = <<>>
    /\ call = [kind |-> "none"]
    /\ clock = T4
    /\ NoFormatting
    /\ server \in ServerSizes
    /\ entry \in Entries
    /\ apiPc = "page"
    /\ offset = 0
    /\ allFills = <<>>
    /\ log = <<>>

\* The head of `while (true)`: the request for the page at offset is sent.
SendRequest ==
    /\ apiPc = "page"
    /\ log' = Append(log, Request(pathOf(entry), limit, offset))
    /\ apiPc' = "await"
    /\ UNCHANGED <<reconstruction, formatting, server, entry, offset, allFills>>

\* Variant of ReceivePage: the offset is moved on by one, as if it counted
\* pages.
ReceivePageCountingPages ==
    /\ apiPc = "await"
    /\ LET page == pageOf(server, limit, offset)
       IN  IF Len(page) = 0
           THEN /\ apiPc' = "returned"
                /\ UNCHANGED <<allFills, offset>>
           ELSE /\ allFills' = allFills \o page
                /\ IF Len(page) < limit
                   THEN apiPc' = "returned" /\ offset' = offset
                   ELSE apiPc' = "sleep" /\ offset' = offset + 1
    /\ UNCHANGED <<reconstruction, formatting, server, entry, log>>

\* The page arrives: break on an empty page; push; break on a short page;
\* else move the offset on and start the timer.
ReceivePage ==
    /\ apiPc = "await"
    /\ LET page == pageOf(server, limit, offset)
       IN  IF Len(page) = 0
           THEN /\ apiPc' = "returned"
                /\ UNCHANGED <<allFills, offset>>
           ELSE /\ allFills' = allFills \o page
                /\ IF Len(page) < limit
                   THEN apiPc' = "returned" /\ offset' = offset
                   ELSE apiPc' = "sleep" /\ offset' = offset + limit
    /\ UNCHANGED <<reconstruction, formatting, server, entry, log>>

\* The timer of 100 ms fires and the loop goes round.
Sleep ==
    /\ apiPc = "sleep"
    /\ log' = Append(log, Delay(pause))
    /\ apiPc' = "page"
    /\ UNCHANGED <<reconstruction, formatting, server, entry, offset, allFills>>

\* main after getAllFills has returned: getOrders, getFundingPayments and
\* getSettlements, one request each, one after the other; an answer or an
\* error, main goes on to the next.
Probe ==
    /\ entry = "main"
    /\ \E step \in { <<"returned", "/wapi/v1/history/orders", "orders">>,
                      <<"orders", "/wapi/v1/history/fundingPayments", "fundingPayments">>,
                      <<"fundingPayments", "/wapi/v1/history/settlement", "fetched">> } :
         /\ apiPc = step[1]
         /\ log' = Append(log, [kind |-> "request", path |-> step[2],
                                limit |-> probeLimit])
         /\ apiPc' = step[3]
    /\ UNCHANGED <<reconstruction, formatting, server, entry, offset, allFills>>

NextFetch == SendRequest \/ ReceivePage \/ Sleep \/ Probe

\* Every continuation the event loop holds is run, and the server answers.
SpecFetch == InitFetch /\ [][NextFetch]_vars /\ WF_vars(NextFetch)

\* ================================================================ claims

\* The signed quantity of a fill as the specification words it.
Signed(f) == IF f.side = "Bid" THEN f.quantity ELSE -f.quantity

RECURSIVE SignedSum(_, _)
SignedSum(fs, n) == IF n = 0 THEN 0 ELSE SignedSum(fs, n - 1) + Signed(fs[n])

Ledgers == Range(symbolPositions)

\* The completed positions held by the ledgers, and those returned.
LedgerPositions == UNION { Range(l.completedPositions) : l \in Ledgers }
ReturnedPositions ==
    IF pc = "done" THEN Range(result[1].completedPositions) ELSE {}

\* C1: the signed quantities of the fills of every completed position, in a
\* ledger or returned, sum to zero within the tolerance EPSILON.
C1_ZeroSum ==
    \A p \in LedgerPositions \cup ReturnedPositions :
        Abs(SignedSum(p.fills, Len(p.fills))) < EPSILON

\* A call has returned a position whose fills sum to exactly zero and one
\* whose fills sum to a non-zero quantity below the tolerance.
C1_Witness ==
    /\ pc = "done"
    /\ \E p \in ReturnedPositions :
         Len(p.fills) >= 2 /\ SignedSum(p.fills, Len(p.fills)) = 0
    /\ \E p \in ReturnedPositions :
         Len(p.fills) >= 2 /\ SignedSum(p.fills, Len(p.fills)) # 0

NetOf(map, symbol) ==
    IF \E l \in Range(map) : l.symbol = symbol
    THEN (CHOOSE l \in Range(map) : l.symbol = symbol).netQuantity
    ELSE 0

CountOf(map, symbol) ==
    IF \E l \in Range(map) : l.symbol = symbol
    THEN Len((CHOOSE l \in Range(map) : l.symbol = symbol).completedPositions)
    ELSE 0

BufferOf(map, symbol) ==
    IF \E l \in Range(map) : l.symbol = symbol
    THEN (CHOOSE l \in Range(map) : l.symbol = symbol).openFills
    ELSE <<>>

RECURSIVE Closures(_, _, _)
\* <<the number of fills of symbol among the first n of fs after which the
\* net quantity accumulated since the closure before is below the tolerance,
\* that net quantity after the n-th fill>>.
Closures(fs, n, symbol) ==
    IF n = 0 THEN <<0, 0>>
    ELSE LET before == Closures(fs, n - 1, symbol)
             net == before[2] + Signed(fs[n])
         IN  IF fs[n].symbol # symbol THEN before
             ELSE IF -EPSILON < net /\ net < EPSILON THEN <<before[1] + 1, 0>>
             ELSE <<before[1], net>>

\* What one iteration of the scan does to the ledgers, fill by fill.
C2_Step ==
    (pc = "scan" /\ idx' = idx + 1) =>
        LET fill == sortedFills[idx]
            net == NetOf(symbolPositions, fill.symbol) + Signed(fill)
            zero == -EPSILON < net /\ net < EPSILON
            closes ==
                /\ CountOf(symbolPositions', fill.symbol)
                     = CountOf(symbolPositions, fill.symbol) + 1
                /\ BufferOf(symbolPositions', fill.symbol) = <<>>
                /\ NetOf(symbolPositions', fill.symbol) = 0
            stays ==
                /\ CountOf(symbolPositions', fill.symbol)
                     = CountOf(symbolPositions, fill.symbol)
                /\ BufferOf(symbolPositions', fill.symbol)
                     = Append(BufferOf(symbolPositions, fill.symbol), fill)
                /\ NetOf(symbolPositions', fill.symbol) = net
        IN  /\ zero => closes
            /\ ~zero => stays
            /\ \A symbol \in Symbols \ {fill.symbol} :
                 CountOf(symbolPositions', symbol) = CountOf(symbolPositions, symbol)

C2_Count ==
    pc \in {"scan", "done"} =>
        \A symbol \in Symbols :
            CountOf(symbolPositions, symbol)
              = Closures(sortedFills, idx - 1, symbol)[1]

\* C2: a fill closes the segment of its symbol (one position more, buffer
\* and net quantity reset) exactly when the net quantity after it is below
\* the tolerance, and the number of completed positions of a symbol is the
\* number of its fills after which that was so.
C2_ClosesIffNetZero == [][C2_Step]_vars /\ []C2_Count

\* A symbol has a completed position closed by a fill that left a non-zero
\* net quantity, and a later fill that did not close.
C2_Witness ==
    /\ pc = "done"
    /\ \E l \in Ledgers :
         /\ Len(l.completedPositions) >= 1
         /\ l.openFills # <<>>
         /\ \E p \in Range(l.completedPositions) :
              Len(p.fills) >= 2 /\ SignedSum(p.fills, Len(p.fills)) # 0

\* C3: in every ledger netQuantity is the signed sum of the quantities of
\* the fills in openFills, and the buffer is empty exactly when netQuantity
\* is zero.
C3_NetMatchesBuffer ==
    \A l \in Ledgers :
        /\ l.netQuantity = SignedSum(l.openFills, Len(l.openFills))
        /\ (l.openFills = <<>>) <=> (l.netQuantity = 0)

\* A ledger was reset by a closure that left a non-zero net quantity and
\* has buffered a fill since.
C3_Witness ==
    \E l \in Ledgers :
        /\ \E p \in Range(l.completedPositions) :
             SignedSum(p.fills, Len(p.fills)) # 0
        /\ l.openFills # <<>>

\* C4: every fill of a completed position has the symbol of the position,
\* and a ledger holds the positions of its own symbol only.
C4_OneSymbol ==
    /\ \A l \in Ledgers : \A p \in Range(l.completedPositions) :
          p.symbol = l.symbol
    /\ \A p \in LedgerPositions \cup ReturnedPositions :
          \A f \in Range(p.fills) : f.symbol = p.symbol

\* Two positions of different symbols were returned whose fills interleave
\* in the scan.
C4_Witness ==
    /\ pc = "done"
    /\ \E p, q \in ReturnedPositions :
         /\ p.symbol # q.symbol
         /\ \E i, j, k \in DOMAIN sortedFills :
              /\ i < j /\ j < k
              /\ sortedFills[i] \in Range(p.fills)
              /\ sortedFills[j] \in Range(q.fills)
              /\ sortedFills[k] \in Range(p.fills)

\* ---------------------------------------------------------------- C8-C10

\* The open segments a returned PositionAnalysis reports: it has the fields
\* completedPositions and summary, and none for a segment left open.
ReportedOpenSegments(analysis) ==
    IF "openSegments" \in DOMAIN analysis THEN analysis.openSegments ELSE {}

\* C8 (as claimed): after the scan every ledger with a non-zero net quantity
\* is reported in the result as an open segment with that net quantity.
C8_OpenSegmentsReported ==
    pc = "done" =>
        \A l \in Ledgers :
            l.netQuantity # 0 =>
                \E seg \in ReportedOpenSegments(result[1]) :
                    seg.symbol = l.symbol /\ seg.netQuantity = l.netQuantity

RECURSIVE PnlOf(_)
\* The sum of realizedPnl over a set of positions.
PnlOf(ps) ==
    IF ps = {} THEN <<0, 1>>
    ELSE LET p == CHOOSE q \in ps : TRUE
             rest == PnlOf(ps \ {p})
         IN  Rat(p.realizedPnl[1] * rest[2] + rest[1] * p.realizedPnl[2],
                 p.realizedPnl[2] * rest[2])

RECURSIVE FeesOfPositions(_)
FeesOfPositions(ps) ==
    IF ps = {} THEN 0
    ELSE LET p == CHOOSE q \in ps : TRUE
         IN  p.totalFees + FeesOfPositions(ps \ {p})

RECURSIVE FeesOfFills(_)
FeesOfFills(fs) ==
    IF fs = {} THEN 0
    ELSE LET f == CHOOSE g \in fs : TRUE IN f.fee + FeesOfFills(fs \ {f})

BufferedFills == UNION { Range(l.openFills) : l \in Ledgers }

\* C9: the totals of the summary are the count, the sum of realizedPnl and
\* the sum of totalFees of the returned positions; the fees of the fills
\* left in the buffers are in no total; the breakdown of a symbol holds the
\* count and the sum of realizedPnl of its returned positions.
C9_SummaryTotals ==
    pc = "done" =>
        LET summary == result[1].summary
            returned == result[1].completedPositions
        IN  /\ Cardinality(ReturnedPositions) = Len(returned)
            /\ summary.totalPositions = Len(returned)
            /\ summary.totalPnl = PnlOf(ReturnedPositions)
            /\ summary.totalFees = FeesOfPositions(ReturnedPositions)
            /\ summary.totalFees
                 = FeesOfFills(Range(fills)) - FeesOfFills(BufferedFills)
            /\ DOMAIN summary.symbolBreakdown = { f.symbol : f \in Range(fills) }
            /\ \A symbol \in DOMAIN summary.symbolBreakdown :
                 LET own == { p \in ReturnedPositions : p.symbol = symbol }
                 IN  /\ summary.symbolBreakdown[symbol].positions = Cardinality(own)
                     /\ summary.symbolBreakdown[symbol].pnl = PnlOf(own)

\* A call returned positions of two symbols with a non-zero total PnL while
\* a fill that paid a fee was left in a buffer.
C9_Witness ==
    /\ pc = "done"
    /\ \E p, q \in ReturnedPositions : p.symbol # q.symbol
    /\ result[1].summary.totalPnl # <<0, 1>>
    /\ FeesOfFills(BufferedFills) > 0

\* C10: a completed position is Long when the first fill of its segment is
\* a Bid and Short otherwise, and no fill of the segment is earlier than
\* that first fill.
C10_DirectionByFirstFill ==
    \A p \in LedgerPositions \cup ReturnedPositions :
        /\ p.side = (IF p.fills[1].side = "Bid" THEN "Long" ELSE "Short")
        /\ \A f \in Range(p.fills) : p.fills[1].timestamp <= f.timestamp

\* A returned position of three fills or more whose last fill is on the
\* side of its first, and whose first fill is outweighed by the other side.
C10_Witness ==
    /\ pc = "done"
    /\ \E p \in ReturnedPositions :
         /\ Len(p.fills) >= 3
         /\ p.fills[Len(p.fills)].side = p.fills[1].side
         /\ \E f \in Range(p.fills) :
              f.side # p.fills[1].side /\ f.quantity > p.fills[1].quantity

\* ----------------------------------------------------------------- C5-C7
\* Checked under SpecRuns, where a second call follows the first.

Compared(kind) == pc = "done" /\ prev # <<>> /\ call.kind = kind

PositionsOfOthers(analysis, symbol) ==
    LET Other(p) == p.symbol # symbol
    IN  SelectSeqBy(analysis.completedPositions, Other, 1)

\* A position none of whose fills is on the closing side: its exitTime is
\* not the instant of a fill but a reading of the clock.
ExitFromClock(p) ==
    \A f \in Range(p.fills) : (f.side = "Bid") <=> (p.side = "Long")

\* A position without an exitTime read from the clock.
ClockFree(p) == [p EXCEPT !.exitTime = IF ExitFromClock(p) THEN 0 ELSE @]

ClockFreeSeq(ps) == [i \in DOMAIN ps |-> ClockFree(ps[i])]

\* A position without its id and without an exitTime read from the clock.
Unnumbered(p) == [ClockFree(p) EXCEPT !.id = 0]

UnnumberedSeq(ps) == [i \in DOMAIN ps |-> Unnumbered(ps[i])]

\* Every position the two compared calls returned has a fill on its closing
\* side, so that each of its fields comes from the fills.
NoClockRead ==
    \A p \in Range(result[1].completedPositions)
             \cup Range(prev[1].result.completedPositions) : ~ExitFromClock(p)

Outcome(analysis) ==
    [i \in DOMAIN analysis.completedPositions |->
        LET p == analysis.completedPositions[i]
        IN  [side |-> p.side, entryPrice |-> p.entryPrice,
             exitPrice |-> p.exitPrice, realizedPnl |-> p.realizedPnl]]

\* C6 (as claimed): every permutation of the array gives the same list of
\* positions (count, directions, prices, PnL, order).  (Stated for the calls
\* in which every position has a closing fill.)
C6_AnyPermutation ==
    (Compared("permuted") /\ NoClockRead)
        => Outcome(result[1]) = Outcome(prev[1].result)

PlaceIn(array, f) == CHOOSE i \in DOMAIN array : array[i] = f

\* Fills of equal timestamp are in the same relative order in both arrays.
TieOrderKept(a, b) ==
    \A f, g \in Range(a) :
        (f.timestamp = g.timestamp /\ PlaceIn(a, f) < PlaceIn(a, g))
            => PlaceIn(b, f) < PlaceIn(b, g)

\* C6 (amended): a permutation of the array that keeps the relative order
\* of the fills of equal timestamp gives the same list of positions.
C6_PermutationKeepingTies ==
    (Compared("permuted") /\ TieOrderKept(prev[1].fills, fills))
        => Outcome(result[1]) = Outcome(prev[1].result)

\* A permuted array of three fills or more, two of them of equal timestamp
\* and kept in order, which the sort had to reorder, gave positions.
C6_Witness ==
    /\ Compared("permuted")
    /\ TieOrderKept(prev[1].fills, fills)
    /\ Len(fills) >= 3
    /\ \E f, g \in Range(fills) : f # g /\ f.timestamp = g.timestamp
    /\ sortedFills # fills
    /\ sortedFills # prev[1].fills
    /\ Len(result[1].completedPositions) >= 1

\* C7 (as claimed): a second call with the same array returns the same
\* result in every field.
C7_SameResultTwice ==
    Compared("same") => result[1] = prev[1].result

\* ---------------------------------------------------------------- C11-C13

RECURSIVE QuantityOn(_, _, _)
\* The total quantity of the fills of fs, up to the n-th, on one side.
QuantityOn(fs, n, side) ==
    IF n = 0 THEN 0
    ELSE QuantityOn(fs, n - 1, side)
           + (IF fs[n].side = side THEN fs[n].quantity ELSE 0)

\* The side that opens a position and the side that closes it.
OpeningSide(p) == IF p.side = "Long" THEN "Bid" ELSE "Ask"
ClosingSide(p) == IF p.side = "Long" THEN "Ask" ELSE "Bid"

OpeningQuantity(p) == QuantityOn(p.fills, Len(p.fills), OpeningSide(p))
ClosingQuantity(p) == QuantityOn(p.fills, Len(p.fills), ClosingSide(p))

\* C11 (as claimed): the size of every completed position equals the total
\* quantity of its opening-side fills and the total quantity of its
\* closing-side fills.
C11_SizeEqualsBothSides ==
    \A p \in LedgerPositions \cup ReturnedPositions :
        p.size = OpeningQuantity(p) /\ p.size = ClosingQuantity(p)

\* C11 (amended): the size of every completed position is the smaller of
\* the total opening-side and the total closing-side quantity, the two differ
\* by less than the tolerance EPSILON, and the size equals both when the
\* signed quantities of the fills sum to exactly zero.
C11_SizeIsSmallerSide ==
    \A p \in LedgerPositions \cup ReturnedPositions :
        LET opening == OpeningQuantity(p)
            closing == ClosingQuantity(p)
        IN  /\ p.size <= opening /\ p.size <= closing
            /\ p.size = opening \/ p.size = closing
            /\ opening - closing < EPSILON /\ closing - opening < EPSILON
            /\ SignedSum(p.fills, Len(p.fills)) = 0
                 => (p.size = opening /\ p.size = closing)

\* A call returned a position of fills on both sides whose two totals
\* differ, and one whose two totals are equal and not zero.
C11_Witness ==
    /\ pc = "done"
    /\ \E p \in ReturnedPositions :
         /\ \E f, g \in Range(p.fills) : f.side # g.side
         /\ OpeningQuantity(p) # ClosingQuantity(p)
    /\ \E p \in ReturnedPositions :
         OpeningQuantity(p) = ClosingQuantity(p) /\ p.size > 0

\* The fills of a position on its closing side.
ClosingFills(p) == { f \in Range(p.fills) : f.side = ClosingSide(p) }

\* C12 (as claimed): for every completed position entryTime <= exitTime,
\* entryTime is the timestamp of the first fill of the segment, and exitTime
\* is the timestamp of the latest fill on the closing side.
C12_ExitIsLatestClosingFill ==
    \A p \in LedgerPositions \cup ReturnedPositions :
        /\ p.entryTime <= p.exitTime
        /\ p.entryTime = p.fills[1].timestamp
        /\ \E f \in ClosingFills(p) :
             /\ p.exitTime = f.timestamp
             /\ \A g \in ClosingFills(p) : g.timestamp <= f.timestamp

\* The fills of symbol among those scanned so far, in the order of the scan.
ScannedOf(symbol) ==
    LET Own(f) == f.symbol = symbol
    IN  SelectSeqBy(SubSeq(sortedFills, 1, idx - 1), Own, 1)

RECURSIVE FillsOfAll(_, _)
\* The fills of the first n positions of a list, one position after another.
FillsOfAll(positions, n) ==
    IF n = 0 THEN <<>> ELSE FillsOfAll(positions, n - 1) \o positions[n].fills

\* The place of a fill among the scanned fills of its symbol.
PlaceOf(f) ==
    CHOOSE i \in DOMAIN ScannedOf(f.symbol) : ScannedOf(f.symbol)[i] = f

\* C13: for every symbol, the fills of its completed positions, one position
\* after another in the order of closure, followed by the buffered fills,
\* are the scanned fills of the symbol in the order of the scan: every
\* position is a contiguous run of them, no fill of a position lies between
\* two fills of another, and no fill is in two positions.  The returned
\* positions of a symbol are those of its ledger.
C13_ContiguousSegments ==
    pc \in {"scan", "done"} =>
        /\ \A l \in Ledgers :
             FillsOfAll(l.completedPositions, Len(l.completedPositions))
                 \o l.openFills = ScannedOf(l.symbol)
        /\ \A p \in LedgerPositions \cup ReturnedPositions :
             \A i \in DOMAIN p.fills : PlaceOf(p.fills[i]) = PlaceOf(p.fills[1]) + i - 1
        /\ \A p, q \in LedgerPositions \cup ReturnedPositions :
             p # q => Range(p.fills) \cap Range(q.fills) = {}
        /\ pc = "done" => ReturnedPositions = LedgerPositions

\* A symbol has two completed positions, and a fill of another symbol was
\* scanned between two fills of one of them.
C13_Witness ==
    /\ pc = "done"
    /\ \E l \in Ledgers :
         /\ Len(l.completedPositions) >= 2
         /\ \E p \in Range(l.completedPositions) :
              \E i, j, k \in DOMAIN sortedFills :
                 /\ i < j /\ j < k
                 /\ sortedFills[i] \in Range(p.fills)
                 /\ sortedFills[k] \in Range(p.fills)
                 /\ sortedFills[j].symbol # p.symbol

\* ---------------------------------------------------------------- C14-C16
\* A number of the code is a fraction <<n, d>> with d > 0; the claims compare
\* fractions by cross-multiplication.

SameNumber(a, b) == a[1] * b[2] = b[1] * a[2]

\* (to - from) * size
Gain(from, to, size) == <<(to[1] * from[2] - from[1] * to[2]) * size, to[2] * from[2]>>

RECURSIVE FeesOfSeq(_, _)
FeesOfSeq(fs, n) == IF n = 0 THEN 0 ELSE FeesOfSeq(fs, n - 1) + fs[n].fee

\* realizedPnl and realizedPnlPercent of the returned positions, in order.
PnlList(analysis) ==
    [i \in DOMAIN analysis.completedPositions |->
        <<analysis.completedPositions[i].realizedPnl,
          analysis.completedPositions[i].realizedPnlPercent>>]

\* C14: realizedPnl is (exitPrice - entryPrice) * size for a Long position
\* and (entryPrice - exitPrice) * size for a Short one, and totalFees is the
\* sum of the fees of the fills; a second call with the same fills and other
\* fees returns the same realizedPnl and realizedPnlPercent, position by
\* position, and the totalFees of the new fees.
C14_PnlWithoutFees ==
    /\ \A p \in LedgerPositions \cup ReturnedPositions :
         /\ p.side = "Long"
              => SameNumber(p.realizedPnl, Gain(p.entryPrice, p.exitPrice, p.size))
         /\ p.side = "Short"
              => SameNumber(p.realizedPnl, Gain(p.exitPrice, p.entryPrice, p.size))
         /\ p.totalFees = FeesOfSeq(p.fills, Len(p.fills))
    /\ Compared("fees") => PnlList(result[1]) = PnlList(prev[1].result)

\* The second call, with other fees, returned a Long and a Short position of
\* non-zero PnL, and a position whose totalFees differs from the first call's.
C14_Witness ==
    /\ Compared("fees")
    /\ \E p, q \in ReturnedPositions :
         /\ p.side = "Long" /\ q.side = "Short"
         /\ p.realizedPnl[1] # 0 /\ q.realizedPnl[1] # 0
    /\ \E i \in DOMAIN result[1].completedPositions :
         result[1].completedPositions[i].totalFees
           # prev[1].result.completedPositions[i].totalFees

RECURSIVE ValueOn(_, _, _)
\* The sum of price * quantity over the fills of fs, up to the n-th, on one
\* side.
ValueOn(fs, n, side) ==
    IF n = 0 THEN 0
    ELSE ValueOn(fs, n - 1, side)
           + (IF fs[n].side = side THEN fs[n].price * fs[n].quantity ELSE 0)

OpeningValue(p) == ValueOn(p.fills, Len(p.fills), OpeningSide(p))
ClosingValue(p) == ValueOn(p.fills, Len(p.fills), ClosingSide(p))

\* price = value / quantity
IsAverage(price, value, quantity) == price[1] * quantity = value * price[2]

\* C15: entryPrice is the sum of price * quantity over the opening-side
\* fills divided by their total quantity, exitPrice the same over the
\* closing-side fills (where the total quantity is not zero), and a position
\* holds all the fills of its segment: no fill before its last one brought
\* the net quantity back below the tolerance.
C15_WeightedAveragePrices ==
    \A p \in LedgerPositions \cup ReturnedPositions :
        /\ OpeningQuantity(p) > 0
             => IsAverage(p.entryPrice, OpeningValue(p), OpeningQuantity(p))
        /\ ClosingQuantity(p) > 0
             => IsAverage(p.exitPrice, ClosingValue(p), ClosingQuantity(p))
        /\ \A n \in 1..(Len(p.fills) - 1) : Abs(SignedSum(p.fills, n)) >= EPSILON

\* A Short position was returned that two Bids of different prices closed,
\* and that two Asks of different prices and quantities opened.
C15_Witness ==
    /\ pc = "done"
    /\ \E p \in ReturnedPositions :
         /\ p.side = "Short"
         /\ \E f, g \in ClosingFills(p) : f.price # g.price
         /\ \E f, g \in Range(p.fills) \ ClosingFills(p) :
              f.price # g.price /\ f.quantity # g.quantity
         /\ p.entryPrice[2] # 1

\* A number that is neither NaN nor an Infinity.
IsFinite(a) == a[2] > 0

\* C16: a completed position whose notionalValue is 0 has realizedPnlPercent
\* exactly 0, and entryPrice, exitPrice, notionalValue, realizedPnl and
\* realizedPnlPercent of every completed position are finite numbers: none
\* is the outcome of a division by zero.
C16_NoDivisionByZero ==
    \A p \in LedgerPositions \cup ReturnedPositions :
        /\ p.notionalValue[1] = 0 => p.realizedPnlPercent = <<0, 1>>
        /\ IsFinite(p.entryPrice) /\ IsFinite(p.exitPrice)
        /\ IsFinite(p.notionalValue) /\ IsFinite(p.realizedPnl)
        /\ IsFinite(p.realizedPnlPercent)
        /\ OpeningQuantity(p) = 0 => p.entryPrice = <<0, 1>>
        /\ ClosingQuantity(p) = 0 => p.exitPrice = <<0, 1>>

\* A call returned a position whose fills all have quantity zero (its
\* notionalValue is 0 and neither side has a quantity to divide by), one of a
\* non-zero opening quantity and no closing fill, and one of non-zero
\* notionalValue.
C16_Witness ==
    /\ pc = "done"
    /\ \E p \in ReturnedPositions :
         /\ p.notionalValue[1] = 0
         /\ OpeningQuantity(p) = 0 /\ ClosingQuantity(p) = 0
    /\ \E p \in ReturnedPositions :
         /\ p.notionalValue[1] = 0
         /\ OpeningQuantity(p) > 0 /\ ClosingFills(p) = {}
    /\ \E p \in ReturnedPositions : p.notionalValue[1] # 0

\* ---------------------------------------------------------------- C17-C20

\* f is before g in the sequence s.
Before(s, f, g) == PlaceIn(s, f) < PlaceIn(s, g)

\* The fills of s are in the order of the scan.
InScanOrder(s) ==
    \A i, j \in DOMAIN s : i < j => Before(sortedFills, s[i], s[j])

\* C17: the scan goes through the fills of the array in non-decreasing order
\* of timestamp, fills of equal timestamp in their order in the array; the
\* fills scanned so far are those in the ledgers, and the fills of every
\* buffer and of every completed position are in the order of the scan.
C17_StableChronologicalScan ==
    pc \in {"scan", "done"} =>
        /\ Len(sortedFills) = Len(fills)
        /\ Range(sortedFills) = Range(fills)
        /\ \A i, j \in DOMAIN sortedFills :
             i < j =>
                /\ sortedFills[i].timestamp <= sortedFills[j].timestamp
                /\ sortedFills[i].timestamp = sortedFills[j].timestamp
                     => Before(fills, sortedFills[i], sortedFills[j])
        /\ BufferedFills \cup UNION { Range(p.fills) : p \in LedgerPositions }
             = { sortedFills[i] : i \in 1..(idx - 1) }
        /\ \A l \in Ledgers : InScanOrder(l.openFills)
        /\ \A p \in LedgerPositions \cup ReturnedPositions : InScanOrder(p.fills)

\* The array was not in order of timestamp; a position was returned with
\* two fills of equal timestamp, and a fill of the same timestamp stayed in
\* a buffer.
C17_Witness ==
    /\ pc = "done"
    /\ \E i, j \in DOMAIN fills : i < j /\ fills[i].timestamp > fills[j].timestamp
    /\ \E p \in ReturnedPositions :
         \E i, j \in DOMAIN p.fills :
            /\ i < j /\ p.fills[i].timestamp = p.fills[j].timestamp
            /\ \E f \in BufferedFills : f.timestamp = p.fills[i].timestamp

\* C18: the returned completedPositions are in non-decreasing order of
\* entryTime, whatever their symbols.  (Their ids need not ascend: the
\* witness is a returned list in which they do not.)
C18_ReturnedByEntryTime ==
    pc = "done" =>
        LET returned == result[1].completedPositions
        IN  \A i, j \in DOMAIN returned :
               i < j => returned[i].entryTime <= returned[j].entryTime

\* A call returned positions of two symbols, not all of the same entryTime,
\* with a larger id before a smaller one.
C18_Witness ==
    /\ pc = "done"
    /\ LET returned == result[1].completedPositions
       IN  /\ \E i, j \in DOMAIN returned :
                /\ i < j
                /\ returned[i].id > returned[j].id
                /\ returned[i].symbol # returned[j].symbol
           /\ \E i, j \in DOMAIN returned :
                returned[i].entryTime < returned[j].entryTime

RECURSIVE ClosuresOfAll(_, _)
\* The number of closing fills, of the symbols of S, among the first n
\* fills of the scan.
ClosuresOfAll(S, n) ==
    IF S = {} THEN 0
    ELSE LET symbol == CHOOSE x \in S : TRUE
         IN  Closures(sortedFills, n, symbol)[1] + ClosuresOfAll(S \ {symbol}, n)

\* C19: the counter is one more than the number of positions completed so
\* far; the position closed by the k-th closing fill of the scan has id k;
\* the ids of the N positions in the ledgers, and of the N returned, are
\* pairwise distinct and are exactly 1..N.
C19_IdsCountClosures ==
    pc \in {"scan", "done"} =>
        LET N == ClosuresOfAll(Symbols, idx - 1)
        IN  /\ positionIdCounter = N + 1
            /\ Cardinality(LedgerPositions) = N
            /\ { p.id : p \in LedgerPositions } = 1..N
            /\ \A p \in LedgerPositions :
                 p.id = ClosuresOfAll(Symbols,
                            PlaceIn(sortedFills, p.fills[Len(p.fills)]))
            /\ pc = "done" =>
                 /\ Len(result[1].completedPositions) = N
                 /\ { p.id : p \in ReturnedPositions } = 1..N

\* A call returned three positions, the one of the second id of another
\* symbol than those of the first and the third.
C19_Witness ==
    /\ pc = "done"
    /\ \E p, q, r \in ReturnedPositions :
         /\ p.id < q.id /\ q.id < r.id
         /\ p.symbol = r.symbol /\ q.symbol # p.symbol

\* The completed positions of a symbol, in the order of closure.
PositionsOf(map, symbol) ==
    IF \E l \in Range(map) : l.symbol = symbol
    THEN (CHOOSE l \in Range(map) : l.symbol = symbol).completedPositions
    ELSE <<>>

\* What the scan does with a fill of quantity zero: the net quantity of its
\* symbol is as before, and the fill is at the end of the segment: of the
\* buffer, or of the position the segment formed at this fill (when the
\* ledger was flat), whose totalFees counts its fee.
C20_Step ==
    (pc = "scan" /\ idx' = idx + 1 /\ sortedFills[idx].quantity = 0) =>
        LET fill == sortedFills[idx]
            segment == Append(BufferOf(symbolPositions, fill.symbol), fill)
            formed == PositionsOf(symbolPositions', fill.symbol)
        IN  /\ NetOf(symbolPositions', fill.symbol)
                 = NetOf(symbolPositions, fill.symbol)
            /\ \/ /\ BufferOf(symbolPositions', fill.symbol) = segment
                  /\ formed = PositionsOf(symbolPositions, fill.symbol)
               \/ /\ NetOf(symbolPositions, fill.symbol) = 0
                  /\ Len(formed) = CountOf(symbolPositions, fill.symbol) + 1
                  /\ formed[Len(formed)].fills = segment
                  /\ formed[Len(formed)].totalFees
                       = FeesOfSeq(segment, Len(segment))

\* The totalFees of a position counts the fee of every fill of its segment,
\* those of quantity zero among them.
C20_FeeCounted ==
    \A p \in LedgerPositions \cup ReturnedPositions :
        p.totalFees = FeesOfSeq(p.fills, Len(p.fills))

\* C20: a fill of quantity zero leaves the net quantity of its symbol
\* unchanged, is appended to the segment buffer of the symbol, and its fee is
\* counted in the totalFees of the position the segment forms.
C20_ZeroQuantityFill == [][C20_Step]_vars /\ []C20_FeeCounted

\* A call returned a position of three fills or more, one of them, not the
\* last, of quantity zero and with a fee.
C20_Witness ==
    /\ pc = "done"
    /\ \E p \in ReturnedPositions :
         /\ Len(p.fills) >= 3
         /\ \E i \in 2..(Len(p.fills) - 1) :
              p.fills[i].quantity = 0 /\ p.fills[i].fee > 0
         /\ p.size > 0

\* ---------------------------------------------------------------- C21-C30

\* What one iteration of the scan does to the completed positions: those of
\* every symbol stay as they were, in place and in every field, and at most
\* one is added, behind them, for the symbol of the fill, with the buffer and
\* the fill as its fills.
C21_Step ==
    (pc = "scan" /\ idx' = idx + 1) =>
        LET fill == sortedFills[idx]
        IN  \A symbol \in Symbols :
               LET before == PositionsOf(symbolPositions, symbol)
                   after == PositionsOf(symbolPositions', symbol)
               IN  /\ Len(after) \in {Len(before), Len(before) + 1}
                   /\ SubSeq(after, 1, Len(before)) = before
                   /\ Len(after) = Len(before) + 1 =>
                        /\ symbol = fill.symbol
                        /\ after[Len(after)].fills
                             = Append(BufferOf(symbolPositions, symbol), fill)

\* The positions returned are those of the ledgers, each once.
C21_ReturnedAsCompleted ==
    pc = "done" =>
        /\ ReturnedPositions = LedgerPositions
        /\ Len(result[1].completedPositions) = Cardinality(LedgerPositions)

\* C21: a completed position is created once, when its segment closes, with
\* the fills of the segment, and no later fill, of its symbol or another,
\* changes a field of it or its fills; it is returned as it was created.
C21_CompletedNeverChanged == [][C21_Step]_vars /\ []C21_ReturnedAsCompleted

\* After a position of a symbol was completed, a fill of the same symbol was
\* buffered and a fill of another symbol was scanned.
C21_Witness ==
    /\ pc = "done"
    /\ \E l \in Ledgers :
         /\ l.openFills # <<>>
         /\ \E p \in Range(l.completedPositions) :
              /\ Len(p.fills) >= 2
              /\ \E f \in Range(sortedFills) :
                   /\ f.symbol # l.symbol
                   /\ Before(sortedFills, p.fills[Len(p.fills)], f)

\* a and b are not zero and of opposite signs.
OppositeSigns(a, b) == (a > 0 /\ b < 0) \/ (a < 0 /\ b > 0)

\* The fill of this iteration is kept whole in the buffer of its symbol, the
\* net quantity takes all of its quantity and no position is completed.
KeptWhole(fill) ==
    /\ CountOf(symbolPositions', fill.symbol)
         = CountOf(symbolPositions, fill.symbol)
    /\ BufferOf(symbolPositions', fill.symbol)
         = Append(BufferOf(symbolPositions, fill.symbol), fill)
    /\ NetOf(symbolPositions', fill.symbol)
         = NetOf(symbolPositions, fill.symbol) + Signed(fill)

\* C25 (as claimed): a fill that takes the net quantity of its symbol from a
\* non-zero value to a non-zero value of the opposite sign closes no
\* position and stays whole in the buffer.
C25_Step ==
    (pc = "scan" /\ idx' = idx + 1) =>
        LET fill == sortedFills[idx]
            net == NetOf(symbolPositions, fill.symbol)
        IN  OppositeSigns(net, net + Signed(fill)) => KeptWhole(fill)

C25_CrossingNeverCloses == [][C25_Step]_vars

\* The same for a fill that leaves, on the other side of zero, a net
\* quantity of the tolerance or more.
C25_StepBeyondTolerance ==
    (pc = "scan" /\ idx' = idx + 1) =>
        LET fill == sortedFills[idx]
            net == NetOf(symbolPositions, fill.symbol)
        IN  (OppositeSigns(net, net + Signed(fill))
               /\ Abs(net + Signed(fill)) >= EPSILON) => KeptWhole(fill)

\* A completed position holds every fill since the net quantity of its
\* symbol was last below the tolerance.
C25_FromFlatToFlat ==
    \A p \in LedgerPositions \cup ReturnedPositions :
        /\ \A n \in 1..(Len(p.fills) - 1) : Abs(SignedSum(p.fills, n)) >= EPSILON
        /\ Abs(SignedSum(p.fills, Len(p.fills))) < EPSILON

\* C25 (amended): a fill that takes the net quantity of its symbol past zero
\* to a value of the opposite sign, of the tolerance or more, closes no
\* position and stays whole in the buffer; the position completed later
\* holds all the fills since the last flat state, this one among them.
C25_CrossingBeyondTolerance ==
    [][C25_StepBeyondTolerance]_vars /\ []C25_FromFlatToFlat

\* A position was returned in which the net quantity changes its sign at one
\* fill, neither the first nor the last.
C25_Witness ==
    /\ pc = "done"
    /\ \E p \in ReturnedPositions :
         \E n \in 2..(Len(p.fills) - 1) :
            OppositeSigns(SignedSum(p.fills, n - 1), SignedSum(p.fills, n))

\* No step of a call writes to the array of the caller: its length, the
\* order of its elements and the fields of its fills stay.
C26_Step == pc \in {"idle", "scan"} => fills' = fills

\* The fills in the sorted copy, in the buffers and in the positions are the
\* fills of the array, field by field.
C26_SameFills ==
    pc \in {"scan", "done"} =>
        /\ Range(sortedFills) = Range(fills)
        /\ BufferedFills \subseteq Range(fills)
        /\ \A p \in LedgerPositions \cup ReturnedPositions :
             Range(p.fills) \subseteq Range(fills)

C27_LastFillCloses ==
    \A p \in LedgerPositions \cup ReturnedPositions :
        ClosingFills(p) # {} =>
            LET last == p.fills[Len(p.fills)]
            IN  /\ last.side # p.fills[1].side
                /\ last.side = ClosingSide(p)
                /\ p.exitTime = last.timestamp

\* How often f is an element of the sequence s.
TimesIn(s, f) == Cardinality({ i \in DOMAIN s : s[i] = f })

RECURSIVE SumOver(_, _, _)
\* The sum of Count(s[i]) over the first n elements of s.
SumOver(s, Count(_), n) ==
    IF n = 0 THEN 0 ELSE SumOver(s, Count, n - 1) + Count(s[n])

\* How often f is in the fills of the completed positions of a ledger, and
\* how many fills these hold.
TimesCompleted(l, f) ==
    LET Times(p) == TimesIn(p.fills, f)
    IN  SumOver(l.completedPositions, Times, Len(l.completedPositions))

FillsCompleted(l) ==
    LET Size(p) == Len(p.fills)
    IN  SumOver(l.completedPositions, Size, Len(l.completedPositions))

\* C28: after the scan every fill of the array is in one place and one only,
\* the fills of one completed position or the buffer of the ledger of its
\* symbol, and in no ledger of another symbol; the fills of the positions and
\* of the buffers are as many as the array has.
C28_EveryFillOnce ==
    pc = "done" =>
        /\ \A f \in Range(fills) :
             \A k \in DOMAIN symbolPositions :
                LET l == symbolPositions[k]
                    times == TimesCompleted(l, f) + TimesIn(l.openFills, f)
                IN  times = (IF l.symbol = f.symbol THEN 1 ELSE 0)
        /\ \A f \in Range(fills) :
             \E k \in DOMAIN symbolPositions : symbolPositions[k].symbol = f.symbol
        /\ LET Held(l) == FillsCompleted(l) + Len(l.openFills)
           IN  SumOver(symbolPositions, Held, Len(symbolPositions)) = Len(fills)
        /\ \A f \in Range(fills) :
             Cardinality({ p \in ReturnedPositions : f \in Range(p.fills) })
               = (IF f \in BufferedFills THEN 0 ELSE 1)

\* A scan of fills of two symbols ended with a completed position and with
\* fills left in the buffer of each symbol.
C28_Witness ==
    /\ pc = "done"
    /\ ReturnedPositions # {}
    /\ \E f, g \in BufferedFills : f.symbol # g.symbol

\* C29 (as claimed): every completed position has two fills or more, one at
\* least on the opening side and one at least on the closing side, and none
\* of its fields is a fallback of createCompletedPosition: not a price 0
\* for want of a quantity, not the duration 'Unknown', not the clock as
\* exitTime.
C29_NoFallbackPosition ==
    \A p \in LedgerPositions \cup ReturnedPositions :
        /\ Len(p.fills) >= 2
        /\ \E f \in Range(p.fills) : f.side = OpeningSide(p)
        /\ \E f \in Range(p.fills) : f.side = ClosingSide(p)
        /\ OpeningQuantity(p) > 0 /\ ClosingQuantity(p) > 0
        /\ p.duration # <<"Unknown">>
        /\ \E f \in Range(p.fills) : p.exitTime = f.timestamp

\* C30: the realizedPnl of a completed position whose Bid and Ask quantities
\* are equal is the sum of price * quantity over its Asks less the sum over
\* its Bids, whether the position is Long or Short.
C30_PnlIsSellsLessBuys ==
    \A p \in LedgerPositions \cup ReturnedPositions :
        QuantityOn(p.fills, Len(p.fills), "Bid")
          = QuantityOn(p.fills, Len(p.fills), "Ask")
        => SameNumber(p.realizedPnl,
                      <<ValueOn(p.fills, Len(p.fills), "Ask")
                          - ValueOn(p.fills, Len(p.fills), "Bid"), 1>>)

\* A call returned a Long and a Short position of equal Bid and Ask
\* quantities, each with a realizedPnl that is not zero.
C30_Witness ==
    /\ pc = "done"
    /\ \E p, q \in ReturnedPositions :
         /\ p.side = "Long" /\ q.side = "Short"
         /\ OpeningQuantity(p) = ClosingQuantity(p)
         /\ OpeningQuantity(q) = ClosingQuantity(q)
         /\ p.realizedPnl[1] # 0 /\ q.realizedPnl[1] # 0

\* The counts a text of formatDuration prints: the words at the odd places.
PrintedCounts(text) == { text[i] : i \in { j \in DOMAIN text : j % 2 = 1 } }

\* C22 (as claimed): every unit formatDuration prints for an elapsed time of
\* one second or more has a count that is not zero, it prints two units at
\* most, and an elapsed time below one minute is printed in seconds only.
C22_TwoNonZeroUnits ==
    formatted # <<>> =>
        LET text == formatted[1]
        IN  /\ milliseconds >= 1000 => 0 \notin PrintedCounts(text)
            /\ Len(text) \in {2, 4}
            /\ milliseconds < 60000
                 => text = <<milliseconds \div 1000,
                             IF milliseconds \div 1000 = 1 THEN "second"
                             ELSE "seconds">>

\* The requests of the paging loop in the log, in the order they were sent.
PageRequests ==
    LET Paged(e) == e.kind = "request" /\ e.limit = limit
    IN  SelectSeqBy(log, Paged, 1)

InLoop == apiPc \in {"page", "await", "sleep"}

\* The paging loop has returned.
C23_Returned == apiPc \notin {"idle", "page", "await", "sleep"}

\* The k-th request of the loop asks for `limit` records at offset
\* (k - 1) * limit; a request is sent when every page asked for before has
\* arrived in full; the records collected are the first records of the
\* server, each once and in its order; the loop returns after
\* server \div limit + 1 requests with all the records of the server.
C23_Paging ==
    apiPc # "idle" =>
        /\ \A k \in DOMAIN PageRequests :
             PageRequests[k] = Request(pathOf(entry), limit, (k - 1) * limit)
        /\ apiPc \in {"page", "sleep"} => Len(allFills) = Len(PageRequests) * limit
        /\ apiPc = "await" => Len(allFills) = (Len(PageRequests) - 1) * limit
        /\ InLoop => offset = Len(allFills)
        /\ Len(allFills) <= server
        /\ \A i \in DOMAIN allFills : allFills[i] = i
        /\ C23_Returned =>
             /\ Len(PageRequests) = (server \div limit) + 1
             /\ Len(allFills) = server

\* C23: the paging loops of BackpackAPI ask for pages of 1000 records at the
\* offsets 0, 1000, 2000, ..., one after the other, stop after the first page
\* that is empty or short, and return the pages in order: with a server of N
\* records the loop ends, after N \div 1000 + 1 requests, with the N records,
\* each once.
C23_PagesToTheEnd == []C23_Paging /\ <>C23_Returned

\* A loop has returned after three requests, the last page empty, and one
\* after three requests, the last page short.
C23_Witness ==
    /\ C23_Returned
    /\ Len(PageRequests) = 3
    /\ server % limit \in {0, 1}
    /\ allFills # <<>>

\* C24 (as claimed): every request after the first is sent after a delay
\* since the request before.
C24_DelayBeforeEveryRequest ==
    \A i \in DOMAIN log :
        (i > 1 /\ log[i].kind = "request") => log[i - 1].kind = "delay"

====
